---- MODULE Spec2Model ----
(***************************************************************************)
(* A model of the documentation question-answering assistant (main.py):    *)
(* the command-line entry point, the chat orchestration loop, the          *)
(* compound-question splitter and the response rewriting pass; and of the  *)
(* run of its list of tests (comprehensive_rag_test.py).                   *)
(*                                                                         *)
(* Python strings are modelled as sequences of one-character strings, so   *)
(* that str.replace, str.split, str.strip, str.lower and the "in" test are *)
(* computed character by character, as the interpreter computes them.      *)
(***************************************************************************)
EXTENDS Integers, Sequences, FiniteSets, TLC

VARIABLES
    pc,             \* position of the running code
    hasKey,         \* "OPENAI_API_KEY" in os.environ
    persistDir,     \* PERSIST_DIR.exists()
    ingests,        \* Chroma.from_documents calls made on the persisted store
    runs,           \* how many times the command line was started
    cmd,            \* args.cmd
    entered,        \* the function __main__ has called: ingest_docs or chat
    status,         \* how the process ended
    chainBuilt,     \* chat: build_chain() has returned
    question,       \* the question given to chat / split_question_into_parts
    result,         \* split_question_into_parts: what chain.invoke returned
    splitOutcome,   \* whether the decomposition call returned or raised
    sub_questions,  \* chat: the sequence it loops over
    i,              \* chat: the loop counter of enumerate(sub_questions, 1)
    calls,          \* the retrieval calls chat has issued, in order
    inflight,       \* retrieval calls issued and not yet returned
    output,         \* what chat has printed as sub-questions and answers
    log,            \* what chat has printed as failure notices
    tokens,         \* the pieces the current input string was assembled from
    response,       \* enhance_response_authority: its argument
    enhanced,       \* enhance_response_authority: its return value
    test_i,         \* run_all_tests: the counter of enumerate(tests, 1)
    passed_tests,   \* run_all_tests: its counter of tests that returned
    failed_tests,   \* run_all_tests: its counter of tests that raised
    tests_run,      \* the tests run_all_tests has called, in order, and how each went
    exit_code       \* the argument of sys.exit in comprehensive_rag_test.py

\* the variables of the test harness
harnessVars == <<test_i, passed_tests, failed_tests, tests_run, exit_code>>

vars == <<pc, hasKey, persistDir, ingests, runs, cmd, entered, status, chainBuilt,
          question, result, splitOutcome, sub_questions, i, calls, inflight,
          output, log, tokens, response, enhanced, harnessVars>>

(***************************************************************************)
(* Python's str operations                                                 *)
(***************************************************************************)

\* str.lower on the ASCII letters
ToLower ==
    [c \in {"A", "B", "C", "D", "E", "F", "G", "H", "I", "J", "K", "L", "M", "N", "O", "P", "Q", "R", "S", "T", "U", "V", "W", "X", "Y", "Z"} |->
        CASE c = "A" -> "a"
          [] c = "B" -> "b"
          [] c = "C" -> "c"
          [] c = "D" -> "d"
          [] c = "E" -> "e"
          [] c = "F" -> "f"
          [] c = "G" -> "g"
          [] c = "H" -> "h"
          [] c = "I" -> "i"
          [] c = "J" -> "j"
          [] c = "K" -> "k"
          [] c = "L" -> "l"
          [] c = "M" -> "m"
          [] c = "N" -> "n"
          [] c = "O" -> "o"
          [] c = "P" -> "p"
          [] c = "Q" -> "q"
          [] c = "R" -> "r"
          [] c = "S" -> "s"
          [] c = "T" -> "t"
          [] c = "U" -> "u"
          [] c = "V" -> "v"
          [] c = "W" -> "w"
          [] c = "X" -> "x"
          [] c = "Y" -> "y"
          [] c = "Z" -> "z"]

LowerChar(c) == IF c \in DOMAIN ToLower THEN ToLower[c] ELSE c

Lower(s) == [k \in 1..Len(s) |-> LowerChar(s[k])]

\* the characters str.strip removes by default
Whitespace == {" ", "\n", "\t", "\r"}

\* p occurs in s at index at
MatchAt(s, p, at) ==
    /\ at + Len(p) - 1 <= Len(s)
    /\ \A k \in 1..Len(p) : s[at + k - 1] = p[k]

\* str.find: the least index at which p occurs in s, 0 when there is none
Find(s, p) ==
    IF Len(s) < Len(p) THEN 0
    ELSE
    LET hits == {at \in 1..(Len(s) - Len(p) + 1) : MatchAt(s, p, at)}
    IN  IF hits = {} THEN 0 ELSE CHOOSE at \in hits : \A other \in hits : at <= other

\* p in s
Contains(s, p) == Find(s, p) # 0

\* s.startswith(p)
StartsWith(s, p) == MatchAt(s, p, 1)

\* s[:n]
Prefix(s, n) == SubSeq(s, 1, IF n < Len(s) THEN n ELSE Len(s))

\* s.replace(old, new): every occurrence, leftmost first, never overlapping
RECURSIVE Replace(_, _, _)
Replace(s, old, new) ==
    IF Len(s) < Len(old) THEN s
    ELSE
    LET at == Find(s, old)
    IN  IF at = 0 THEN s
        ELSE SubSeq(s, 1, at - 1) \o new
                \o Replace(SubSeq(s, at + Len(old), Len(s)), old, new)

\* s.replace(old, new, 1): the leftmost occurrence only
ReplaceFirst(s, old, new) ==
    IF Len(s) < Len(old) THEN s
    ELSE
    LET at == Find(s, old)
    IN  IF at = 0 THEN s
        ELSE SubSeq(s, 1, at - 1) \o new \o SubSeq(s, at + Len(old), Len(s))

\* s.strip()
Strip(s) ==
    LET keep == {k \in 1..Len(s) : s[k] \notin Whitespace}
    IN  IF keep = {} THEN <<>>
        ELSE SubSeq(s, CHOOSE a \in keep : \A b \in keep : a <= b,
                       CHOOSE a \in keep : \A b \in keep : a >= b)

\* s.split(sep): always at least one fragment
RECURSIVE Split(_, _)
Split(s, sep) ==
    IF Len(s) < Len(sep) THEN <<s>>
    ELSE
    LET at == Find(s, sep)
    IN  IF at = 0 THEN <<s>>
        ELSE <<SubSeq(s, 1, at - 1)>> \o Split(SubSeq(s, at + Len(sep), Len(s)), sep)

\* sep.join(parts)
RECURSIVE Join(_, _)
Join(parts, sep) ==
    IF parts = <<>> THEN <<>>
    ELSE IF Len(parts) = 1 THEN parts[1]
    ELSE parts[1] \o sep \o Join(Tail(parts), sep)

\* the concatenation of a sequence of strings
Concat(parts) == Join(parts, <<>>)

(***************************************************************************)
(* enhance_response_authority                                              *)
(***************************************************************************)

\* "cannot answer", "not available", "don't have information"
no_answer_phrases ==
    << <<"c","a","n","n","o","t"," ","a","n","s","w","e","r">>,
    <<"n","o","t"," ","a","v","a","i","l","a","b","l","e">>,
    <<"d","o","n","'","t"," ","h","a","v","e"," ","i","n","f","o","r","m","a","t","i","o","n">> >>

formal_phrases ==
    << <<"A","c","c","o","r","d","i","n","g"," ","t","o"," ","t","h","e"," ","d","o","c","u","m","e","n","t","a","t","i","o","n",","," ">>,
    <<"T","h","i","s"," ","i","s"," ","e","x","p","l","i","c","i","t","l","y"," ","s","t","a","t","e","d"," ","i","n"," ","t","h","e"," ","d","o","c","u","m","e","n","t","a","t","i","o","n","."," ">>,
    <<"T","h","e"," ","s","y","s","t","e","m"," ","d","o","c","u","m","e","n","t","a","t","i","o","n"," ","s","p","e","c","i","f","i","e","s"," ","t","h","a","t"," ">>,
    <<"A","s"," ","d","o","c","u","m","e","n","t","e","d"," ","i","n"," ","t","h","e"," ","s","y","s","t","e","m",","," ">>,
    <<"T","h","e"," ","d","o","c","u","m","e","n","t","a","t","i","o","n"," ","i","n","d","i","c","a","t","e","s"," ">>,
    <<"A","s"," ","o","u","t","l","i","n","e","d"," ","i","n"," ","t","h","e"," ","d","o","c","u","m","e","n","t","a","t","i","o","n",","," ">>,
    <<"T","h","e"," ","o","f","f","i","c","i","a","l"," ","p","r","o","c","e","d","u","r","e"," ","i","s",":"," ">>,
    <<"D","o","c","u","m","e","n","t","e","d"," ","s","t","e","p","s"," ","a","r","e",":"," ">>,
    <<"S","y","s","t","e","m"," ","r","e","q","u","i","r","e","m","e","n","t","s"," ","i","n","c","l","u","d","e",":"," ">>,
    <<"T","h","e","s","e"," ","a","r","e"," ","t","h","e"," ","d","o","c","u","m","e","n","t","e","d"," ","r","e","q","u","i","r","e","m","e","n","t","s">>,
    <<"T","h","i","s"," ","p","r","o","c","e","s","s"," ","i","s"," ","f","u","l","l","y"," ","d","o","c","u","m","e","n","t","e","d">>,
    <<"T","h","i","s"," ","i","n","f","o","r","m","a","t","i","o","n"," ","i","s"," ","d","o","c","u","m","e","n","t","e","d"," ","i","n"," ","t","h","e"," ","o","f","f","i","c","i","a","l"," ","s","y","s","t","e","m"," ","d","o","c","u","m","e","n","t","a","t","i","o","n",".">> >>

\* "**", "- ", "* "
markdown_markers ==
    << <<"*","*">>,
    <<"-"," ">>,
    <<"*"," ">> >>

\* old -> new, in the order the code applies them
\* a faulty variant of the list below: the pair for "cannot be added" is missing
tone_substitutions_without_cannot ==
    << <<<<"T","h","e"," ","s","y","s","t","e","m"," ","r","e","q","u","i","r","e","s">>,
         <<"Y","o","u"," ","n","e","e","d"," ","t","o">>>>,
       <<<<"T","h","e"," ","d","o","c","u","m","e","n","t","a","t","i","o","n"," ","s","p","e","c","i","f","i","e","s">>,
         <<>>>>,
       <<<<"o","f","f","i","c","i","a","l"," ","s","y","s","t","e","m"," ","p","r","o","c","e","d","u","r","e","s">>,
         <<"s","t","e","p","s">>>>,
       <<<<"d","o","c","u","m","e","n","t","e","d"," ","p","r","o","c","e","d","u","r","e","s">>,
         <<"s","t","e","p","s">>>>,
       <<<<"c","a","n"," ","o","n","l","y"," ","b","e"," ","a","d","d","e","d">>,
         <<"c","a","n"," ","o","n","l","y"," ","b","e"," ","u","s","e","d"," ","i","n">>>> >>

tone_substitutions ==
    << <<<<"T","h","e"," ","s","y","s","t","e","m"," ","r","e","q","u","i","r","e","s">>,
         <<"Y","o","u"," ","n","e","e","d"," ","t","o">>>>,
       <<<<"T","h","e"," ","d","o","c","u","m","e","n","t","a","t","i","o","n"," ","s","p","e","c","i","f","i","e","s">>,
         <<>>>>,
       <<<<"o","f","f","i","c","i","a","l"," ","s","y","s","t","e","m"," ","p","r","o","c","e","d","u","r","e","s">>,
         <<"s","t","e","p","s">>>>,
       <<<<"d","o","c","u","m","e","n","t","e","d"," ","p","r","o","c","e","d","u","r","e","s">>,
         <<"s","t","e","p","s">>>>,
       <<<<"c","a","n","n","o","t"," ","b","e"," ","a","d","d","e","d">>,
         <<"c","a","n","'","t"," ","b","e"," ","u","s","e","d"," ","i","n">>>>,
       <<<<"c","a","n"," ","o","n","l","y"," ","b","e"," ","a","d","d","e","d">>,
         <<"c","a","n"," ","o","n","l","y"," ","b","e"," ","u","s","e","d"," ","i","n">>>> >>

verbose_phrases ==
    << <<"y","o","u"," ","n","e","e","d"," ","t","o"," ","f","o","l","l","o","w"," ","t","h","e","s","e"," ","s","t","e","p","s",":">>,
    <<"t","h","e"," ","p","r","o","c","e","s","s"," ","i","s"," ","a","s"," ","f","o","l","l","o","w","s",":">>,
    <<"t","h","e"," ","w","a","y"," ","t","o"," ","d","o"," ","t","h","i","s"," ","i","s",":">> >>

\* "that's it!", "you've successfully", "once you've filled"
skip_phrases ==
    << <<"t","h","a","t","'","s"," ","i","t","!">>,
    <<"y","o","u","'","v","e"," ","s","u","c","c","e","s","s","f","u","l","l","y">>,
    <<"o","n","c","e"," ","y","o","u","'","v","e"," ","f","i","l","l","e","d">> >>

starters ==
    << <<"t","o">>,
    <<"y","o","u">>,
    <<"h","e","r","e">>,
    <<"f","i","r","s","t">>,
    <<"s","t","e","p","s">>,
    <<"s","i","m","p","l","y">>,
    <<"j","u","s","t">>,
    <<"w","h","e","n">>,
    <<"i","f">>,
    <<"1",".">>,
    <<"y","e","s">>,
    <<"n","o">>,
    <<"t","h","e","r","e"," ","a","r","e">>,
    <<"t","h","e"," ","s","y","s","t","e","m">> >>

\* "click", "press", "go to", "navigate"
action_words ==
    << <<"c","l","i","c","k">>,
    <<"p","r","e","s","s">>,
    <<"g","o"," ","t","o">>,
    <<"n","a","v","i","g","a","t","e">> >>

\* "machine", "vehicle", "trailer", "equipment"
equipment_words ==
    << <<"m","a","c","h","i","n","e">>,
    <<"v","e","h","i","c","l","e">>,
    <<"t","r","a","i","l","e","r">>,
    <<"e","q","u","i","p","m","e","n","t">> >>

\* "I can help you with that based on the system documentation."
fallback_response ==
    <<"I"," ","c","a","n"," ","h","e","l","p"," ","y","o","u"," ","w","i","t","h"," ","t","h","a","t"," ","b","a","s","e","d"," ","o","n"," ","t","h","e"," ","s","y","s","t","e","m"," ","d","o","c","u","m","e","n","t","a","t","i","o","n",".">>

\* "To do this: "
to_do_this == <<"T","o"," ","d","o"," ","t","h","i","s",":"," ">>

\* "Steps:\n"
steps_opener == <<"S","t","e","p","s",":","\n">>

\* "Here's how equipment works: "
equipment_opener == <<"H","e","r","e","'","s"," ","h","o","w"," ","e","q","u","i","p","m","e","n","t"," ","w","o","r","k","s",":"," ">>

\* response.lower()[:30] and response.lower()[:20]
ActionWindow == 30
EquipmentWindow == 20

\* any(p in s for p in phrases)
ContainsAny(s, phrases) == \E k \in 1..Len(phrases) : Contains(s, phrases[k])

\* for phrase in phrases: s = s.replace(phrase, "")
RECURSIVE RemoveEach(_, _)
RemoveEach(s, phrases) ==
    IF s = <<>> \/ phrases = <<>> THEN s
    ELSE RemoveEach(Replace(s, Head(phrases), <<>>), Tail(phrases))

\* for (old, new) in pairs: s = s.replace(old, new)
RECURSIVE SubstituteEach(_, _)
SubstituteEach(s, pairs) ==
    IF s = <<>> \/ pairs = <<>> THEN s
    ELSE SubstituteEach(Replace(s, Head(pairs)[1], Head(pairs)[2]), Tail(pairs))

\* a faulty variant of the verbatim test: the phrases are looked up in the
\* response as written, not in response.lower()
IsNoAnswerCaseSensitive(s) == ContainsAny(s, no_answer_phrases)

\* the test that returns the response verbatim
IsNoAnswer(s) == ContainsAny(Lower(s), no_answer_phrases)

\* the stripped lines that are kept: non-empty and free of the filler phrases
RECURSIVE KeptLines(_)
KeptLines(lines) ==
    IF lines = <<>> THEN <<>>
    ELSE LET line == Strip(Head(lines))
         IN  (IF line # <<>> /\ ~ContainsAny(Lower(line), skip_phrases)
              THEN <<line>> ELSE <<>>) \o KeptLines(Tail(lines))

\* the response after every removal and substitution, before an opener is chosen
CleanedResponse(s) ==
    LET r1 == RemoveEach(s, formal_phrases)
        r2 == RemoveEach(r1, markdown_markers)
        r3 == SubstituteEach(r2, tone_substitutions)
        r4 == Strip(r3)
        r5 == RemoveEach(r4, verbose_phrases)
    IN  Join(KeptLines(Split(r5, <<"\n">>)), <<"\n">>)

\* a faulty variant: the equipment words are tried before the action words
WithOpenerEquipmentFirst(s) ==
    LET low == Lower(s)
    IN  IF \E k \in 1..Len(starters) : StartsWith(low, starters[k]) THEN s
        ELSE IF ContainsAny(Prefix(low, EquipmentWindow), equipment_words)
             THEN equipment_opener \o s
        ELSE IF StartsWith(low, <<"1", ".">>) THEN steps_opener \o s
        ELSE IF ContainsAny(Prefix(low, ActionWindow), action_words)
             THEN to_do_this \o s
        ELSE s

\* a faulty variant: no test for a text that already starts like an answer
WithOpenerNoStarters(s) ==
    LET low == Lower(s)
    IN  IF ContainsAny(Prefix(low, ActionWindow), action_words)
        THEN to_do_this \o s
        ELSE IF StartsWith(low, <<"1", ".">>) THEN steps_opener \o s
        ELSE IF ContainsAny(Prefix(low, EquipmentWindow), equipment_words)
             THEN equipment_opener \o s
        ELSE s

\* a faulty variant: the action and equipment words are looked up in the
\* whole text, not in its first characters
WithOpenerAnywhere(s) ==
    LET low == Lower(s)
    IN  IF \E k \in 1..Len(starters) : StartsWith(low, starters[k]) THEN s
        ELSE IF ContainsAny(low, action_words) THEN to_do_this \o s
        ELSE IF StartsWith(low, <<"1", ".">>) THEN steps_opener \o s
        ELSE IF ContainsAny(low, equipment_words) THEN equipment_opener \o s
        ELSE s

\* the opener put in front of a cleaned, non-empty response
WithOpener(s) ==
    LET low == Lower(s)
    IN  IF \E k \in 1..Len(starters) : StartsWith(low, starters[k]) THEN s
        ELSE IF ContainsAny(Prefix(low, ActionWindow), action_words)
             THEN to_do_this \o s
        ELSE IF StartsWith(low, <<"1", ".">>) THEN steps_opener \o s
        ELSE IF ContainsAny(Prefix(low, EquipmentWindow), equipment_words)
             THEN equipment_opener \o s
        ELSE s

\* a faulty variant: the "if not response" fallback is missing
enhance_without_fallback(s) ==
    IF IsNoAnswer(s) THEN s ELSE WithOpener(CleanedResponse(s))

enhance_response_authority(s) ==
    IF IsNoAnswer(s) THEN s
    ELSE LET cleaned == CleanedResponse(s)
         IN  IF cleaned = <<>> THEN fallback_response ELSE WithOpener(cleaned)

(***************************************************************************)
(* split_question_into_parts                                               *)
(***************************************************************************)

\* " and "
and_separator == <<" ","a","n","d"," ">>

\* "tiling", "repair", "excavation": the keywords, in the order they are tried
domain_keywords ==
    << <<"t","i","l","i","n","g">>,
    <<"r","e","p","a","i","r">>,
    <<"e","x","c","a","v","a","t","i","o","n">> >>

\* base_context: the first keyword found in parts[0].lower(), followed by a
\* space, or "" when there is none
BaseContext(first) ==
    LET low == Lower(first)
        hits == {k \in 1..Len(domain_keywords) : Contains(low, domain_keywords[k])}
    IN  IF hits = {} THEN <<>>
        ELSE domain_keywords[CHOOSE k \in hits : \A h \in hits : k <= h] \o <<" ">>

\* the loop body without the context repair
RepairPartNoContext(raw_part, base_context) == Strip(raw_part)

\* a faulty variant of the loop body: "how to" gets the context even when
\* the fragment already holds it
RepairPartAlways(raw_part, base_context) ==
    LET part == Strip(raw_part)
    IN  IF base_context # <<>> /\ StartsWith(part, <<"h","o","w"," ","t","o">>)
        THEN ReplaceFirst(part, <<"h","o","w"," ","t","o">>,
                          <<"h","o","w"," ","t","o"," ">> \o base_context)
        ELSE part

\* what the loop body makes of parts[i] for i > 0
RepairPart(raw_part, base_context) ==
    LET part == Strip(raw_part)
    IN  IF base_context # <<>> /\ ~Contains(Lower(part), Strip(base_context))
        THEN IF StartsWith(part, <<"h","o","w"," ","t","o">>)
             THEN ReplaceFirst(part, <<"h","o","w"," ","t","o">>,
                               <<"h","o","w"," ","t","o"," ">> \o base_context)
             ELSE IF StartsWith(part, <<"w","h","a","t">>)
             THEN IF Contains(part, <<"c","o","n","v","e","r","t">>)
                  THEN Replace(part, <<"c","o","n","v","e","r","t"," ","i","t"," ","t","o">>,
                               <<"c","o","n","v","e","r","t"," ">> \o base_context
                                   \o <<"l","e","a","d"," ","t","o">>)
                  ELSE part
             ELSE IF StartsWith(part, <<"w","h","i","c","h">>)
             THEN IF Contains(part, <<"c","a","n"," ","d","o">>)
                  THEN Replace(part, <<"t","h","i","s"," ","s","t","e","p","s">>,
                               <<"t","h","e"," ">> \o base_context
                                   \o <<"l","e","a","d"," ","s","t","e","p","s">>)
                  ELSE part
             ELSE part
        ELSE part

\* FallbackSplit without the strip() of parts[0]
FallbackSplitUnstripped(parts) ==
    LET base_context == BaseContext(parts[1])
    IN  [k \in 1..Len(parts) |->
            IF k = 1 THEN parts[k] ELSE RepairPart(parts[k], base_context)]

\* a faulty variant: the context is looked for in the whole question
FallbackSplitContextFromQuestion(parts) ==
    LET base_context == BaseContext(Join(parts, and_separator))
    IN  [k \in 1..Len(parts) |->
            IF k = 1 THEN Strip(parts[k]) ELSE RepairPart(parts[k], base_context)]

\* keeps the members of parts that are not blank
RECURSIVE NonBlank(_)
NonBlank(parts) ==
    IF parts = <<>> THEN <<>>
    ELSE (IF Strip(Head(parts)) = <<>> THEN <<>> ELSE <<Head(parts)>>)
             \o NonBlank(Tail(parts))

\* a faulty variant: blank fragments are left out
FallbackSplitDropsBlank(parts) ==
    LET base_context == BaseContext(parts[1])
        kept == NonBlank(parts)
    IN  [k \in 1..Len(kept) |->
            IF k = 1 THEN Strip(kept[k]) ELSE RepairPart(kept[k], base_context)]

\* split_questions, built from the fragments of question.split(" and ")
FallbackSplit(parts) ==
    LET base_context == BaseContext(parts[1])
    IN  [k \in 1..Len(parts) |->
            IF k = 1 THEN Strip(parts[k]) ELSE RepairPart(parts[k], base_context)]

\* the function with "if not result:" as the only way into the " and " split
split_only_when_empty(q, llm_result) ==
    IF llm_result = <<>>
    THEN LET parts == Split(q, and_separator)
         IN  IF Len(parts) > 1 THEN FallbackSplit(parts) ELSE llm_result
    ELSE llm_result

\* the value returned when chain.invoke returned llm_result
split_question_into_parts(q, llm_result) ==
    IF llm_result = <<>> \/ Len(llm_result) = 1
    THEN LET parts == Split(q, and_separator)
         IN  IF Len(parts) > 1 THEN FallbackSplit(parts) ELSE llm_result
    ELSE llm_result

(***************************************************************************)
(* Inputs of the splitter: questions assembled from at most MaxQTokens     *)
(* pieces, and lists of at most MaxResultLen items as the parsed reply of  *)
(* the model.                                                              *)
(***************************************************************************)

MaxQTokens == 3
MaxResultLen == 2

QuestionTokens ==
    << <<" ","a","n","d"," ">>,
    <<"t","i","l","i","n","g"," ","l","e","a","d">>,
    <<"h","o","w"," ","t","o"," ","a","d","d">>,
    <<"R","e","p","a","i","r"," ","j","o","b">>,
    <<"w","h","a","t"," ","t","o"," ","c","o","n","v","e","r","t"," ","i","t"," ","t","o">>,
    <<"w","h","i","c","h"," ","r","o","l","e","s"," ","c","a","n"," ","d","o"," ","t","h","i","s"," ","s","t","e","p","s">>,
    <<"s","t","a","t","u","s">>,
    <<"j","o","b","s"," ">>,
    <<"h","o","w"," ","t","o"," ","f","i","x"," ","t","i","l","i","n","g">>,
    <<"r","e","p","a","i","r"," ","t","i","l","i","n","g">> >>

\* questions of three fragments: "status and how to add and tiling lead",
\* "how to add and tiling lead and how to add",
\* "Repair job and status and how to add"
LongQuestions == {<<7, 1, 3, 1, 2>>, <<3, 1, 2, 1, 3>>, <<4, 1, 7, 1, 3>>}

\* every sequence of at most MaxQTokens pieces, and the long questions
QTokenSeqs ==
    UNION {[1..n -> 1..Len(QuestionTokens)] : n \in 0..MaxQTokens}
        \cup LongQuestions

AssembleQuestion(ts) == Concat([k \in 1..Len(ts) |-> QuestionTokens[ts[k]]])

\* the items a parsed reply is made of: the question itself, or a rewording
ResultItems(q) == {q, <<"l","i","s","t"," ","j","o","b","s">>,
                      <<"a","d","d"," ","l","e","a","d">>}

\* what CommaSeparatedListOutputParser can hand back for question q
LLMResults(q) == UNION {[1..n -> ResultItems(q)] : n \in 0..MaxResultLen}

(***************************************************************************)
(* Variables a specification leaves untouched                              *)
(***************************************************************************)

ProcessIdle ==
    /\ hasKey = TRUE
    /\ persistDir = TRUE
    /\ ingests = 0
    /\ runs = 0
    /\ cmd = "none"
    /\ entered = "none"
    /\ status = "running"
    /\ chainBuilt = FALSE
    /\ i = 0
    /\ calls = <<>>
    /\ inflight = 0
    /\ output = <<>>
    /\ log = <<>>
    /\ test_i = 0
    /\ passed_tests = 0
    /\ failed_tests = 0
    /\ tests_run = <<>>
    /\ exit_code = "none"

processVars == <<hasKey, persistDir, ingests, runs, cmd, entered, status, chainBuilt,
                 i, calls, inflight, output, log>>

(***************************************************************************)
(* SpecSplit: split_question_into_parts on every question and every reply  *)
(***************************************************************************)

SplitInit ==
    /\ ProcessIdle
    /\ pc = "split_ready"
    /\ tokens \in QTokenSeqs
    /\ question = AssembleQuestion(tokens)
    /\ result = <<>>
    /\ splitOutcome = "none"
    /\ sub_questions = <<>>
    /\ response = <<>>
    /\ enhanced = <<>>

\* chain.invoke returns a list and the function returns
SplitReturn ==
    /\ pc = "split_ready"
    /\ \E r \in LLMResults(question) :
          /\ result' = r
          /\ sub_questions' = split_question_into_parts(question, r)
    /\ splitOutcome' = "returned"
    /\ pc' = "split_done"
    /\ UNCHANGED <<processVars, question, tokens, response, enhanced,
                   harnessVars>>

\* chain.invoke raises and so does the function
SplitRaise ==
    /\ pc = "split_ready"
    /\ splitOutcome' = "raised"
    /\ pc' = "split_raised"
    /\ UNCHANGED <<processVars, question, result, sub_questions, tokens,
                   response, enhanced, harnessVars>>

SplitNext == SplitReturn \/ SplitRaise

SpecSplit == SplitInit /\ [][SplitNext]_vars

(***************************************************************************)
(* SpecNorm: enhance_response_authority on every concatenation of at most  *)
(* MaxTokens pieces of RawTokens                                           *)
(***************************************************************************)

MaxTokens == 3

RawTokens ==
    << <<" ">>,
    <<"\n">>,
    <<"A","c","c","o","r","d","i","n","g"," ","t","o"," ","t","h","e"," ","d","o","c","u","m","e","n","t","a","t","i","o","n",","," ">>,
    <<"*","*">>,
    <<"-"," ">>,
    <<"*">>,
    <<"n","o","t"," ","a","v","a","i","l","a","b","l","e">>,
    <<"C","a","n","n","o","t"," ","A","n","s","w","e","r">>,
    <<"D","o","n","'","t"," ","H","a","v","e"," ","I","n","f","o","r","m","a","t","i","o","n">>,
    <<"t","h","a","t","'","s"," ","i","t","!">>,
    <<"c","l","i","c","k"," ","S","a","v","e">>,
    <<"A","c","c","o","r","d","i","n","g"," ","t","o"," ","t","h","e"," ">>,
    <<"d","o","c","u","m","e","n","t","a","t","i","o","n",","," ","c","l","i","c","k"," ","S","a","v","e">>,
    <<"m","a","c","h","i","n","e"," ">>,
    <<"1","."," ">> >>

\* the pieces that the rewriting pass removes entirely: blanks, a whole
\* lead-in phrase, the markers "**" and "- ", a filler line
RemovableTokens == {1, 2, 3, 4, 5, 10}

\* the reply the system prompt prescribes for a question that is out of scope
out_of_scope_refusal ==
    <<"I"," ","c","a","n"," ","o","n","l","y"," ","h","e","l","p"," ","w","i","t","h"," ","q","u","e","s","t","i","o","n","s"," ","a","b","o","u","t"," ","t","h","e"," ","p","r","o","j","e","c","t"," ","m","a","n","a","g","e","m","e","n","t"," ","s","y","s","t","e","m","."," ","P","l","e","a","s","e"," ","a","s","k"," ","a","b","o","u","t"," ","l","e","a","d","s",","," ","j","o","b","s",","," ","e","q","u","i","p","m","e","n","t",","," ","o","r"," ","s","y","s","t","e","m"," ","p","r","o","c","e","s","s","e","s",".">>

\* "The system documentation specifies that equipment cannot be added."
cannot_be_added_answer ==
    <<"T","h","e"," ","s","y","s","t","e","m"," ","d","o","c","u","m","e","n","t","a","t","i","o","n"," ","s","p","e","c","i","f","i","e","s"," ","t","h","a","t"," ","e","q","u","i","p","m","e","n","t"," ","c","a","n","n","o","t"," ","b","e"," ","a","d","d","e","d",".">>

\* answers that are given to the function whole
WholeAnswers == <<out_of_scope_refusal, cannot_be_added_answer>>

RawPieces == RawTokens \o WholeAnswers

\* every sequence of at most MaxTokens pieces, and each whole answer alone
TokenSeqs ==
    UNION {[1..n -> 1..Len(RawTokens)] : n \in 0..MaxTokens}
        \cup {<<k>> : k \in (Len(RawTokens) + 1)..Len(RawPieces)}

Assemble(ts) == Concat([k \in 1..Len(ts) |-> RawPieces[ts[k]]])

NormInit ==
    /\ ProcessIdle
    /\ pc = "norm_ready"
    /\ tokens \in TokenSeqs
    /\ response = Assemble(tokens)
    /\ enhanced = <<>>
    /\ question = <<>>
    /\ result = <<>>
    /\ splitOutcome = "none"
    /\ sub_questions = <<>>

NormApply ==
    /\ pc = "norm_ready"
    /\ enhanced' = enhance_response_authority(response)
    /\ pc' = "norm_done"
    /\ UNCHANGED <<processVars, question, result, splitOutcome, sub_questions,
                   tokens, response, harnessVars>>

\* the function is applied once more, to its own return value
NormReapply ==
    /\ pc = "norm_done"
    /\ response' = enhanced
    /\ enhanced' = enhance_response_authority(enhanced)
    /\ pc' = "norm_again"
    /\ UNCHANGED <<processVars, question, result, splitOutcome, sub_questions,
                   tokens, harnessVars>>

NormNext == NormApply \/ NormReapply

SpecNorm == NormInit /\ [][NormNext]_vars

(***************************************************************************)
(* Spec: the command line.  __main__ parses its arguments, checks the API  *)
(* key and calls ingest_docs or chat; chat checks the persisted store,     *)
(* builds the chain, splits the question and answers the sub-questions one *)
(* after the other.  The persisted store outlives a process, so the        *)
(* command line can be started again, at most MaxRuns times.               *)
(***************************************************************************)

MaxRuns == 2

\* the questions given with --question
ChatQuestions ==
    { <<"a","d","d"," ","l","e","a","d">>,
    <<"t","i","l","i","n","g"," ","l","e","a","d"," ","a","n","d"," ","h","o","w"," ","t","o"," ","p","a","y">> }

\* the answers the chain can return: response["answer"]
ChatAnswers ==
    { <<"n","o","t"," ","a","v","a","i","l","a","b","l","e">>,
    <<"A","c","c","o","r","d","i","n","g"," ","t","o"," ","t","h","e"," ","d","o","c","u","m","e","n","t","a","t","i","o","n",","," ","c","l","i","c","k"," ","S","a","v","e">>,
    <<"*","*">> }

\* the state of a process that has just been started
FreshProcess ==
    /\ cmd' = "none"
    /\ entered' = "none"
    /\ status' = "running"
    /\ chainBuilt' = FALSE
    /\ question' = <<>>
    /\ result' = <<>>
    /\ splitOutcome' = "none"
    /\ sub_questions' = <<>>
    /\ i' = 0
    /\ calls' = <<>>
    /\ inflight' = 0
    /\ output' = <<>>
    /\ log' = <<>>
    /\ response' = <<>>
    /\ enhanced' = <<>>

Init ==
    /\ pc = "args"
    /\ hasKey \in BOOLEAN
    /\ persistDir \in BOOLEAN
    /\ ingests = 0
    /\ runs = 1
    /\ cmd = "none"
    /\ entered = "none"
    /\ status = "running"
    /\ chainBuilt = FALSE
    /\ question = <<>>
    /\ result = <<>>
    /\ splitOutcome = "none"
    /\ sub_questions = <<>>
    /\ i = 0
    /\ calls = <<>>
    /\ inflight = 0
    /\ output = <<>>
    /\ log = <<>>
    /\ tokens = <<>>
    /\ response = <<>>
    /\ enhanced = <<>>
    /\ test_i = 0
    /\ passed_tests = 0
    /\ failed_tests = 0
    /\ tests_run = <<>>
    /\ exit_code = "none"

\* the process ends: an exception reached the top level, or the script ran out
Exit(how) ==
    /\ pc' = "exit"
    /\ status' = how

\* parser.parse_args(): a subcommand, or a usage error that ends the process
ParseArgs ==
    /\ pc = "args"
    /\ \/ /\ cmd' = "ingest"
          /\ pc' = "key"
          /\ UNCHANGED <<question, status>>
       \/ /\ \E q \in ChatQuestions : question' = q
          /\ cmd' = "chat"
          /\ pc' = "key"
          /\ UNCHANGED status
       \/ /\ Exit("usage")
          /\ UNCHANGED <<cmd, question>>
    /\ UNCHANGED <<hasKey, persistDir, ingests, runs, entered, chainBuilt,
                   result, splitOutcome, sub_questions, i, calls, inflight,
                   output, log, tokens, response, enhanced, harnessVars>>

\* a faulty variant: the key is never looked at
CheckKeySkipped ==
    /\ pc = "key"
    /\ pc' = "dispatch"
    /\ UNCHANGED <<hasKey, persistDir, ingests, runs, cmd, entered, status,
                   chainBuilt, question, result, splitOutcome, sub_questions,
                   i, calls, inflight, output, log, tokens, response, enhanced,
                   harnessVars>>

\* if "OPENAI_API_KEY" not in os.environ: raise EnvironmentError(...)
CheckKey ==
    /\ pc = "key"
    /\ IF hasKey
       THEN pc' = "dispatch" /\ UNCHANGED status
       ELSE Exit("EnvironmentError")
    /\ UNCHANGED <<hasKey, persistDir, ingests, runs, cmd, entered, chainBuilt,
                   question, result, splitOutcome, sub_questions, i, calls,
                   inflight, output, log, tokens, response, enhanced,
                   harnessVars>>

\* if args.cmd == "ingest": ingest_docs() elif args.cmd == "chat": chat(...)
Dispatch ==
    /\ pc = "dispatch"
    /\ entered' = cmd
    /\ pc' = IF cmd = "ingest" THEN "ingest" ELSE "chat_store"
    /\ UNCHANGED <<hasKey, persistDir, ingests, runs, cmd, status, chainBuilt,
                   question, result, splitOutcome, sub_questions, i, calls,
                   inflight, output, log, tokens, response, enhanced,
                   harnessVars>>

\* ingest_docs: load, split, embed and persist; a failing loader or embedding
\* call raises, before or after Chroma has created the directory
IngestDocs ==
    /\ pc = "ingest"
    /\ \/ /\ persistDir' = TRUE
          /\ ingests' = ingests + 1
          /\ Exit("ok")
       \/ /\ persistDir' \in {persistDir, TRUE}
          /\ UNCHANGED ingests
          /\ Exit("Exception")
    /\ UNCHANGED <<hasKey, runs, cmd, entered, chainBuilt, question, result,
                   splitOutcome, sub_questions, i, calls, inflight, output,
                   log, tokens, response, enhanced, harnessVars>>

\* a faulty variant: chat goes on without looking at PERSIST_DIR
ChatCheckStoreSkipped ==
    /\ pc = "chat_store"
    /\ pc' = "chat_build"
    /\ UNCHANGED <<hasKey, persistDir, ingests, runs, cmd, entered, status,
                   chainBuilt, question, result, splitOutcome, sub_questions,
                   i, calls, inflight, output, log, tokens, response, enhanced,
                   harnessVars>>

\* chat: if not PERSIST_DIR.exists(): raise RuntimeError(...)
ChatCheckStore ==
    /\ pc = "chat_store"
    /\ IF persistDir
       THEN pc' = "chat_build" /\ UNCHANGED status
       ELSE Exit("RuntimeError")
    /\ UNCHANGED <<hasKey, persistDir, ingests, runs, cmd, entered, chainBuilt,
                   question, result, splitOutcome, sub_questions, i, calls,
                   inflight, output, log, tokens, response, enhanced,
                   harnessVars>>

\* chat: chain = build_chain()
ChatBuildChain ==
    /\ pc = "chat_build"
    /\ chainBuilt' = TRUE
    /\ pc' = "chat_split"
    /\ UNCHANGED <<hasKey, persistDir, ingests, runs, cmd, entered, status,
                   question, result, splitOutcome, sub_questions, i, calls,
                   inflight, output, log, tokens, response, enhanced,
                   harnessVars>>

\* a faulty variant: no try/except around the call, so its exception leaves chat
ChatSplitNoCatch ==
    /\ pc = "chat_split"
    /\ \/ /\ \E r \in LLMResults(question) :
                /\ result' = r
                /\ sub_questions' = split_question_into_parts(question, r)
          /\ splitOutcome' = "returned"
          /\ i' = 1
          /\ pc' = "loop"
          /\ UNCHANGED status
       \/ /\ splitOutcome' = "raised"
          /\ Exit("Exception")
          /\ UNCHANGED <<result, sub_questions, i>>
    /\ UNCHANGED <<hasKey, persistDir, ingests, runs, cmd, entered, chainBuilt,
                   question, calls, inflight, output, log, tokens, response,
                   enhanced, harnessVars>>

\* chat: try: sub_questions = split_question_into_parts(question)
\*       except Exception as e: print("[!] Failed to split ..."); sub_questions = [question]
ChatSplit ==
    /\ pc = "chat_split"
    /\ \/ /\ \E r \in LLMResults(question) :
                /\ result' = r
                /\ sub_questions' = split_question_into_parts(question, r)
          /\ splitOutcome' = "returned"
          /\ UNCHANGED log
       \/ /\ splitOutcome' = "raised"
          /\ log' = Append(log, "Failed to split question")
          /\ sub_questions' = <<question>>
          /\ UNCHANGED result
    /\ i' = 1
    /\ pc' = "loop"
    /\ UNCHANGED <<hasKey, persistDir, ingests, runs, cmd, entered, status,
                   chainBuilt, question, calls, inflight, output, tokens,
                   response, enhanced, harnessVars>>

\* a faulty variant: the loop goes to the retrieval call without printing
\* the sub-question
ChatPrintHeaderSilent ==
    /\ pc = "loop"
    /\ IF i <= Len(sub_questions)
       THEN /\ pc' = "invoke"
            /\ UNCHANGED status
       ELSE Exit("ok")
    /\ UNCHANGED <<hasKey, persistDir, ingests, runs, cmd, entered, chainBuilt,
                   question, result, splitOutcome, sub_questions, i, calls,
                   inflight, output, log, tokens, response, enhanced,
                   harnessVars>>

\* chat: for i, q in enumerate(sub_questions, 1): print(f"\n Q{i}: {q}"),
\* or the end of the loop and of the process
ChatPrintHeader ==
    /\ pc = "loop"
    /\ IF i <= Len(sub_questions)
       THEN /\ output' = Append(output, [kind |-> "Q", n |-> i, text |-> sub_questions[i]])
            /\ pc' = "invoke"
            /\ UNCHANGED status
       ELSE /\ Exit("ok")
            /\ UNCHANGED output
    /\ UNCHANGED <<hasKey, persistDir, ingests, runs, cmd, entered, chainBuilt,
                   question, result, splitOutcome, sub_questions, i, calls,
                   inflight, log, tokens, response, enhanced, harnessVars>>

\* a faulty variant: the history handed to the chain is the answers so far
ChatInvokeWithHistory ==
    /\ pc = "invoke"
    /\ calls' = Append(calls, [question |-> sub_questions[i],
                               chat_history |-> [c \in 1..Len(calls) |-> calls[c].answer],
                               emitted |-> Len(output), returned |-> FALSE,
                               answer |-> <<>>])
    /\ inflight' = inflight + 1
    /\ pc' = "await"
    /\ UNCHANGED <<hasKey, persistDir, ingests, runs, cmd, entered, status,
                   chainBuilt, question, result, splitOutcome, sub_questions,
                   i, output, log, tokens, response, enhanced, harnessVars>>

\* chat: chain.invoke({"question": q, "chat_history": []}) is issued
ChatInvoke ==
    /\ pc = "invoke"
    /\ calls' = Append(calls, [question |-> sub_questions[i], chat_history |-> <<>>,
                               emitted |-> Len(output), returned |-> FALSE,
                               answer |-> <<>>])
    /\ inflight' = inflight + 1
    /\ pc' = "await"
    /\ UNCHANGED <<hasKey, persistDir, ingests, runs, cmd, entered, status,
                   chainBuilt, question, result, splitOutcome, sub_questions,
                   i, output, log, tokens, response, enhanced, harnessVars>>

\* a faulty variant: a failure of the retrieval call is swallowed and the loop
\* goes on with the next sub-question
ChatInvokeReturnSwallowed ==
    /\ pc = "await"
    /\ inflight' = inflight - 1
    /\ \/ /\ \E a \in ChatAnswers :
                /\ response' = a
                /\ calls' = [calls EXCEPT ![Len(calls)].returned = TRUE,
                                          ![Len(calls)].answer = a]
          /\ pc' = "answer"
          /\ UNCHANGED i
       \/ /\ i' = i + 1
          /\ pc' = "loop"
          /\ UNCHANGED <<response, calls>>
    /\ UNCHANGED <<hasKey, persistDir, ingests, runs, cmd, entered, status,
                   chainBuilt, question, result, splitOutcome, sub_questions,
                   output, log, tokens, enhanced, harnessVars>>

\* the retrieval call returns response["answer"], or raises out of chat
ChatInvokeReturn ==
    /\ pc = "await"
    /\ inflight' = inflight - 1
    /\ \/ /\ \E a \in ChatAnswers :
                /\ response' = a
                /\ calls' = [calls EXCEPT ![Len(calls)].returned = TRUE,
                                          ![Len(calls)].answer = a]
          /\ pc' = "answer"
          /\ UNCHANGED status
       \/ /\ Exit("Exception")
          /\ UNCHANGED <<response, calls>>
    /\ UNCHANGED <<hasKey, persistDir, ingests, runs, cmd, entered, chainBuilt,
                   question, result, splitOutcome, sub_questions, i, output,
                   log, tokens, enhanced, harnessVars>>

\* a faulty variant: the answer is computed and the loop moves on, but the
\* answer is not printed
ChatPrintAnswerLate ==
    /\ pc = "answer"
    /\ enhanced' = enhance_response_authority(response)
    /\ i' = i + 1
    /\ pc' = "loop"
    /\ UNCHANGED <<hasKey, persistDir, ingests, runs, cmd, entered, status,
                   chainBuilt, question, result, splitOutcome, sub_questions,
                   calls, inflight, output, log, tokens, response, harnessVars>>

\* chat: enhanced_response = enhance_response_authority(response["answer"]);
\* print("->", enhanced_response); on to the next sub-question
ChatPrintAnswer ==
    /\ pc = "answer"
    /\ enhanced' = enhance_response_authority(response)
    /\ output' = Append(output, [kind |-> "A", n |-> i,
                                 text |-> enhance_response_authority(response)])
    /\ i' = i + 1
    /\ pc' = "loop"
    /\ UNCHANGED <<hasKey, persistDir, ingests, runs, cmd, entered, status,
                   chainBuilt, question, result, splitOutcome, sub_questions,
                   calls, inflight, log, tokens, response, harnessVars>>

\* the operator starts the command line again; only the environment and the
\* persisted store carry over
Relaunch ==
    /\ pc = "exit"
    /\ runs < MaxRuns
    /\ runs' = runs + 1
    /\ hasKey' \in BOOLEAN
    /\ pc' = "args"
    /\ FreshProcess
    /\ UNCHANGED <<persistDir, ingests, tokens, harnessVars>>

Next ==
    \/ ParseArgs
    \/ CheckKey
    \/ Dispatch
    \/ IngestDocs
    \/ ChatCheckStore
    \/ ChatBuildChain
    \/ ChatSplit
    \/ ChatPrintHeader
    \/ ChatInvoke
    \/ ChatInvokeReturn
    \/ ChatPrintAnswer
    \/ Relaunch

Spec == Init /\ [][Next]_vars

(***************************************************************************)
(* Properties                                                              *)
(***************************************************************************)

\* the conjunction words the splitting prompt names; "and" as the separate
\* word the fallback looks for
conjunction_words ==
    << <<" ","a","n","d"," ">>, <<"a","l","s","o">>, <<"p","l","u","s">>,
       <<"a","d","d","i","t","i","o","n","a","l","l","y">>,
       <<"f","u","r","t","h","e","r","m","o","r","e">>,
       <<"m","o","r","e","o","v","e","r">> >>

HasConjunction(q) == ContainsAny(Lower(q), conjunction_words)

\* s contains p when upper and lower case are not told apart, read off the
\* characters of s one by one
ContainsIgnoringCase(s, p) ==
    \E at \in 1..(Len(s) - Len(p) + 1) :
        \A k \in 1..Len(p) : LowerChar(s[at + k - 1]) = LowerChar(p[k])

HasNoAnswerPhrase(s) ==
    \E k \in 1..Len(no_answer_phrases) : ContainsIgnoringCase(s, no_answer_phrases[k])

\* C1: for every question and every list the model-based split hands back
\* (empty, one item, two or more items), split_question_into_parts returns a
\* non-empty sequence, and when the split gave nothing and the question has
\* no " and " to split on, the result is the one-element sequence [question].
C1_SplitNeverEmpty ==
    pc = "split_done" =>
        /\ Len(sub_questions) >= 1
        /\ (result = <<>> /\ ~Contains(question, and_separator))
              => sub_questions = <<question>>

\* C2: chat prints a header and then the final answer of each sub-question,
\* in the order of the sequence; the retrieval call for the n-th sub-question
\* is issued when exactly the n-1 earlier pairs and the n-th header have been
\* printed; each printed answer is the rewritten answer of that call; and
\* never more than one retrieval call is in flight.
C2_InOrderOneAtATime ==
    /\ inflight <= 1
    /\ \A k \in 1..Len(output) :
          /\ output[k].n = (k + 1) \div 2
          /\ output[k].n <= Len(sub_questions)
          /\ IF k % 2 = 1
             THEN /\ output[k].kind = "Q"
                  /\ output[k].text = sub_questions[output[k].n]
             ELSE /\ output[k].kind = "A"
                  /\ output[k].n <= Len(calls)
                  /\ calls[output[k].n].returned
                  /\ output[k].text
                        = enhance_response_authority(calls[output[k].n].answer)
    /\ \A c \in 1..Len(calls) :
          /\ c <= Len(sub_questions)
          /\ calls[c].question = sub_questions[c]
          /\ calls[c].emitted = 2 * c - 1
          /\ c < Len(calls) => calls[c].returned

\* two sub-questions have been answered and the process has ended normally
C2_Witness ==
    /\ pc = "exit"
    /\ status = "ok"
    /\ Len(sub_questions) = 2
    /\ Len(calls) = 2
    /\ Len(output) = 4

\* C3: when split_question_into_parts raises inside chat, the exception does
\* not leave chat: one failure notice is printed, the sub-question sequence
\* is exactly [question], and the question is answered as the only
\* sub-question (the process can then end only normally or by a failure of
\* its one retrieval call).
C3_SplitFailureRecovered ==
    splitOutcome = "raised" =>
        /\ log = <<"Failed to split question">>
        /\ sub_questions = <<question>>
        /\ Len(calls) <= 1
        /\ \A c \in 1..Len(calls) : calls[c].question = question
        /\ pc = "exit" =>
              /\ Len(calls) = 1
              /\ \/ /\ status = "ok"
                    /\ output = << [kind |-> "Q", n |-> 1, text |-> question],
                                   [kind |-> "A", n |-> 1,
                                    text |-> enhance_response_authority(calls[1].answer)] >>
                 \/ /\ status = "Exception"
                    /\ ~calls[1].returned

\* the split raised, and the whole question was answered
C3_Witness ==
    /\ splitOutcome = "raised"
    /\ pc = "exit"
    /\ status = "ok"
    /\ Len(output) = 2

\* C4: when chat is entered and the persisted store directory does not
\* exist, chat raises RuntimeError as its first step: no chain is built, no
\* decomposition call and no retrieval call is made, nothing is printed.
C4_NoStoreFailsFirst ==
    (entered = "chat" /\ ~persistDir) =>
        /\ pc \in {"chat_store", "exit"}
        /\ pc = "exit" => status = "RuntimeError"
        /\ ~chainBuilt
        /\ splitOutcome = "none"
        /\ calls = <<>>
        /\ inflight = 0
        /\ output = <<>>
        /\ log = <<>>

\* chat was entered without a store and the process has ended
C4_Witness ==
    /\ entered = "chat"
    /\ ~persistDir
    /\ pc = "exit"
    /\ status = "RuntimeError"

\* C5: when the API key is absent, neither ingest_docs nor chat is entered,
\* whichever subcommand was given, and the process ends in an error: once
\* past the key check it has ended with EnvironmentError.
C5_NoKeyNoWork ==
    ~hasKey =>
        /\ entered = "none"
        /\ pc \in {"args", "key", "exit"}
        /\ pc = "exit" => status \in {"EnvironmentError", "usage"}
        /\ (pc = "exit" /\ cmd \in {"ingest", "chat"}) => status = "EnvironmentError"
        /\ ~chainBuilt
        /\ splitOutcome = "none"
        /\ calls = <<>>
        /\ output = <<>>

\* the chat subcommand was given without the key and the process has ended
C5_Witness ==
    /\ ~hasKey
    /\ cmd = "chat"
    /\ pc = "exit"
    /\ status = "EnvironmentError"

\* C6: enhance_response_authority returns a non-empty string for every
\* input, the empty string included, and returns exactly the fallback
\* sentence when the input is made only of pieces that are removed entirely
\* (blanks, a lead-in phrase, "**", "- ", a filler line).
C6_TotalNonEmpty ==
    pc = "norm_done" =>
        /\ Len(enhanced) >= 1
        /\ (\A k \in 1..Len(tokens) : tokens[k] \in RemovableTokens)
              => enhanced = fallback_response

\* "- According to the documentation, that's it!" came back as the fallback
C6_Witness ==
    /\ pc = "norm_done"
    /\ tokens = <<5, 3, 10>>
    /\ enhanced = fallback_response

\* C7: an input that contains "cannot answer", "not available" or "don't have
\* information", in any mix of upper and lower case, is returned unchanged,
\* whatever else it contains.
C7_NoAnswerVerbatim ==
    (pc = "norm_done" /\ HasNoAnswerPhrase(response)) => enhanced = response

\* " Cannot Answer**" came back as it was: blank, capitals and marker kept
C7_Witness ==
    /\ pc = "norm_done"
    /\ tokens = <<1, 8, 4>>
    /\ enhanced = response

\* C8: the final answer contains none of the lead-in phrases of the
\* catalog.  Stated for the answers the rewriting rules are applied to: an
\* answer returned verbatim by the first rule is never rewritten at all.
C8_NoLeadInPhraseLeft ==
    (pc = "norm_done" /\ ~HasNoAnswerPhrase(response))
        => ~ContainsAny(enhanced, formal_phrases)

\* C9: the final answer contains no "**", no "- " and no "* ".  Stated for
\* the answers the rewriting rules are applied to, as C8.
C9_NoMarkdownLeft ==
    (pc = "norm_done" /\ ~HasNoAnswerPhrase(response))
        => ~ContainsAny(enhanced, markdown_markers)

\* C10: for a question without a conjunction, split_question_into_parts
\* returns the one-element sequence [question], whatever list the
\* model-based split handed back.
C10_NoConjunctionSingle ==
    (pc = "split_done" /\ ~HasConjunction(question)) => sub_questions = <<question>>

(***************************************************************************)
(* The fallback split, fragment by fragment                                *)
(***************************************************************************)

\* the places of the " and " piece in the question
AndPositions == {k \in 1..Len(tokens) : tokens[k] = 1}

\* the question reads A + " and " + B
IsAAndB == Cardinality(AndPositions) = 1

AndPosition == CHOOSE k \in AndPositions : TRUE

FragmentA == AssembleQuestion(SubSeq(tokens, 1, AndPosition - 1))

FragmentB == AssembleQuestion(SubSeq(tokens, AndPosition + 1, Len(tokens)))

NoDomainKeyword(s) ==
    \A k \in 1..Len(domain_keywords) : ~Contains(Lower(s), domain_keywords[k])

\* the function returned through the " and " split
OnFallbackPath == pc = "split_done" /\ Len(result) <= 1

PlainAAndB ==
    /\ OnFallbackPath
    /\ IsAAndB
    /\ NoDomainKeyword(FragmentA)
    /\ NoDomainKeyword(FragmentB)

\* C11 as stated: on the fallback path a question "A and B" without a domain
\* keyword comes back as exactly [A, B], both fragments unchanged.
C11_FragmentsUnchanged ==
    PlainAAndB => sub_questions = <<FragmentA, FragmentB>>

\* C11: on the fallback path a question "A and B" without a domain keyword
\* comes back as exactly [A.strip(), B.strip()]: two fragments, each without
\* its leading and trailing whitespace and otherwise unchanged.
C11_FragmentsStripped ==
    PlainAAndB => sub_questions = <<Strip(FragmentA), Strip(FragmentB)>>

\* "jobs  and status" with an empty reply of the model: "jobs " comes back
\* as "jobs"
C11_Witness ==
    /\ PlainAAndB
    /\ tokens = <<8, 1, 7>>
    /\ result = <<>>
    /\ sub_questions[1] # FragmentA
    /\ sub_questions[2] = FragmentB

how_to == <<"h","o","w"," ","t","o">>

\* the question reads k-th keyword + A + " and " + "how to" + B
DomainHowTo(k) ==
    /\ OnFallbackPath
    /\ IsAAndB
    /\ StartsWith(FragmentA, domain_keywords[k])
    /\ StartsWith(FragmentB, how_to)

\* the k-th keyword is the first one, in the order they are tried, that the
\* text contains
IsFirstKeywordOf(k, s) ==
    /\ Contains(Lower(s), domain_keywords[k])
    /\ \A h \in 1..(k - 1) : ~Contains(Lower(s), domain_keywords[h])

\* C12 as stated: on the fallback path, for "<domain> A and how to B" the
\* second fragment contains the domain keyword directly after "how to".
C12_KeywordAfterHowTo ==
    \A k \in 1..Len(domain_keywords) :
        DomainHowTo(k) =>
            /\ Len(sub_questions) = 2
            /\ Contains(sub_questions[2], how_to \o <<" ">> \o domain_keywords[k])

\* C12: on the fallback path, for "<domain> A and how to B" where <domain> is
\* the first of tiling, repair, excavation that "<domain> A" contains: when
\* "how to B" does not contain <domain> the second fragment is "how to ",
\* <domain>, a space, and what followed "how to"; when it does, the second
\* fragment is "how to B" stripped, with nothing inserted.
C12_KeywordInsertedUnlessPresent ==
    \A k \in 1..Len(domain_keywords) :
        (DomainHowTo(k) /\ IsFirstKeywordOf(k, FragmentA)) =>
            LET part == Strip(FragmentB)
            IN  /\ Len(sub_questions) = 2
                /\ sub_questions[2] =
                      IF Contains(Lower(part), domain_keywords[k])
                      THEN part
                      ELSE how_to \o <<" ">> \o domain_keywords[k] \o <<" ">>
                               \o SubSeq(part, Len(how_to) + 1, Len(part))

\* "tiling lead and how to add" with a one-item reply: the second fragment
\* is "how to tiling  add"
C12_Witness ==
    /\ DomainHowTo(1)
    /\ tokens = <<2, 1, 3>>
    /\ Len(result) = 1
    /\ sub_questions[2] = <<"h","o","w"," ","t","o"," ","t","i","l","i","n","g"," "," ","a","d","d">>

(***************************************************************************)
(* When the " and " split is taken                                         *)
(***************************************************************************)

\* what the " and " split makes of q
FallbackOutcome(q) == FallbackSplit(Split(q, and_separator))

\* chat is past the split of a question that holds " and "
SplitSettled == splitOutcome # "none" /\ Contains(question, and_separator)

\* C13 as stated: the " and " split is applied exactly when the model-based
\* split raised, returned nothing or returned one item; two or more items are
\* returned as they are.
C13_ThreeTriggers ==
    SplitSettled =>
        /\ (sub_questions = FallbackOutcome(question))
                <=> (splitOutcome = "raised" \/ Len(result) <= 1)
        /\ (splitOutcome = "returned" /\ Len(result) >= 2) => sub_questions = result

\* C13: the " and " split is applied exactly when the model-based split
\* returned nothing or returned one item; two or more items are returned as
\* they are; when the model-based split raised, no split is applied and chat
\* goes on with the whole question as its only sub-question.
C13_TwoTriggers ==
    SplitSettled =>
        /\ (sub_questions = FallbackOutcome(question))
                <=> (splitOutcome = "returned" /\ Len(result) <= 1)
        /\ (splitOutcome = "returned" /\ Len(result) >= 2) => sub_questions = result
        /\ splitOutcome = "raised" => sub_questions = <<question>>

\* a one-item reply for a question with " and ": two fragments come back
C13_Witness ==
    /\ SplitSettled
    /\ splitOutcome = "returned"
    /\ Len(result) = 1
    /\ Len(sub_questions) = 2
    /\ sub_questions # result

(***************************************************************************)
(* Failure of a retrieval call, and the history of each call               *)
(***************************************************************************)

\* the last retrieval call has ended without an answer
RetrievalFailed ==
    /\ Len(calls) >= 1
    /\ ~calls[Len(calls)].returned
    /\ pc # "await"

\* C14: when the retrieval call for sub-question i raises, the exception
\* leaves chat (the process ends with it), that call is the last one made, so
\* no later sub-question is queried, and the headers and answers of the
\* sub-questions before i, and the header of i, are what has been printed.
C14_RetrievalFailureAborts ==
    RetrievalFailed =>
        LET n == Len(calls)
        IN  /\ pc = "exit"
            /\ status = "Exception"
            /\ inflight = 0
            /\ i = n
            /\ n <= Len(sub_questions)
            /\ calls[n].question = sub_questions[n]
            /\ Len(output) = 2 * n - 1
            /\ \A c \in 1..(n - 1) :
                  /\ calls[c].returned
                  /\ output[2 * c].kind = "A"
                  /\ output[2 * c].n = c
                  /\ output[2 * c].text = enhance_response_authority(calls[c].answer)

\* the call for the second sub-question raised after the first answer was
\* printed
C14_Witness ==
    /\ RetrievalFailed
    /\ pc = "exit"
    /\ Len(calls) = 2
    /\ calls[1].returned
    /\ Len(output) = 3
    /\ output[2].kind = "A"

\* C15: every retrieval call made by chat is handed an empty chat history,
\* whatever its position and whatever the earlier calls answered.
C15_EmptyHistory ==
    \A c \in 1..Len(calls) : calls[c].chat_history = <<>>

\* a second call has been made after a first one was answered
C15_Witness ==
    /\ Len(calls) = 2
    /\ calls[1].returned
    /\ calls[1].answer # <<>>
    /\ calls[2].chat_history = <<>>

(***************************************************************************)
(* The rewriting pass on its own output and on two given answers           *)
(***************************************************************************)

Openers == {to_do_this, steps_opener, equipment_opener}

\* the function puts an opener in front of its own, already prefixed, output
DuplicatesOpener(x) ==
    LET once == enhance_response_authority(x)
        twice == enhance_response_authority(once)
    IN  \E p \in Openers, q \in Openers :
            StartsWith(once, p) /\ StartsWith(twice, q \o p)

C17_RefusalShortCircuited ==
    (pc = "norm_done" /\ response = out_of_scope_refusal) =>
        /\ HasNoAnswerPhrase(response)
        /\ enhanced = response

\* C17: the prescribed out-of-scope reply holds none of the three phrases of
\* the verbatim test, so that test does not recognise it; it comes back
\* unchanged all the same, because no rewriting rule and no opener applies.
C17_RefusalUnchangedByRewriting ==
    (pc = "norm_done" /\ response = out_of_scope_refusal) =>
        /\ ~HasNoAnswerPhrase(response)
        /\ enhanced = response

C17_Witness ==
    /\ pc = "norm_done"
    /\ response = out_of_scope_refusal
    /\ enhanced = out_of_scope_refusal

\* C20: for "The system documentation specifies that equipment cannot be
\* added." the function returns a text without "The system documentation
\* specifies that " and without "cannot be added", and with "can't be used in".
C20_LeadInRemovedToneRewritten ==
    (pc = "norm_done" /\ response = cannot_be_added_answer) =>
        /\ ~Contains(enhanced, <<"T","h","e"," ","s","y","s","t","e","m"," ","d","o","c","u","m","e","n","t","a","t","i","o","n"," ","s","p","e","c","i","f","i","e","s"," ","t","h","a","t"," ">>)
        /\ ~Contains(enhanced, <<"c","a","n","n","o","t"," ","b","e"," ","a","d","d","e","d">>)
        /\ Contains(enhanced, <<"c","a","n","'","t"," ","b","e"," ","u","s","e","d"," ","i","n">>)

\* the value returned: "Here's how equipment works: equipment can't be used in."
C20_Witness ==
    /\ pc = "norm_done"
    /\ response = cannot_be_added_answer
    /\ enhanced = equipment_opener \o <<"e","q","u","i","p","m","e","n","t"," ","c","a","n","'","t"," ","b","e"," ","u","s","e","d"," ","i","n",".">>

(***************************************************************************)
(* The persisted store after ingest_docs                                   *)
(***************************************************************************)

\* the chunks split_documents makes of the markdown files under DOCS_DIR,
\* the same files at every run
DocChunks == {"chunk 1", "chunk 2"}

\* how many entries of the persisted collection hold chunk c: ingest_docs
\* never empties PERSIST_DIR, and each Chroma.from_documents call opens the
\* collection found there and adds every chunk once, under a new id
CopiesInStore(c) == ingests

\* C18: once ingest_docs has run, the store holds exactly the chunks of the
\* current markdown files, each once, however often ingest has run.
C18_StoreRebuiltWholesale ==
    ingests >= 1 => \A c \in DocChunks : CopiesInStore(c) = 1

(***************************************************************************)
(* SpecTests: comprehensive_rag_test.py, the run of the list of tests.     *)
(* Each test is "assert query_and_validate(question, expected_response)".  *)
(***************************************************************************)

MaxTests == 3

\* len(tests)
total_tests == MaxTests

\* "Error:"
error_prefix == <<"E","r","r","o","r",":">>

\* answers query_rag parses out of the output of a chat process that ended
\* with status 0
ParsedAnswers ==
    {<<"T","o"," ","d","o"," ","t","h","i","s",":"," ","c","l","i","c","k"," ","S","a","v","e">>,
     <<"E","r","r","o","r",":"," ","s","e","e"," ","t","h","e"," ","l","o","g">>}

\* what one call of query_rag does: subprocess.run returns with status 0 and
\* the answer is parsed; it raises CalledProcessError (status not 0; always
\* so without the API key) and "Error: " with the stderr is returned; or it
\* raises something else, which query_rag does not catch
QueryOutcomes(key) ==
    (IF key THEN {[chat |-> "exit 0", text |-> t] : t \in ParsedAnswers} ELSE {})
        \cup {[chat |-> "exit nonzero",
                text |-> error_prefix \o <<" ","k","e","y"," ","n","o","t"," ","s","e","t">>]}
        \cup {[chat |-> "not run", text |-> <<>>]}

\* model.invoke(prompt).content
EvaluatorReplies ==
    {<<"T","r","u","e">>,
     <<"f","a","l","s","e">>,
     <<" ","T","R","U","E",","," ","n","o","t"," ","f","a","l","s","e","\n">>,
     <<"u","n","c","l","e","a","r">>}

\* the evaluator: ChatOpenAI(...) raises, model.invoke raises, or it replies
EvaluatorOutcomes ==
    {[kind |-> "reply", text |-> r] : r \in EvaluatorReplies}
        \cup {[kind |-> "raised", text |-> <<>>], [kind |-> "not built", text |-> <<>>]}

\* query_and_validate reaches model.invoke
EvaluatorCalled(rag, key, ev) ==
    /\ rag.chat # "not run"
    /\ ~StartsWith(rag.text, error_prefix)
    /\ key
    /\ ev.kind # "not built"

\* a faulty variant of query_and_validate: the reply is searched for "false"
\* before it is searched for "true"
query_and_validate_false_first(rag, key, ev) ==
    IF rag.chat = "not run" THEN "raised"
    ELSE IF StartsWith(rag.text, error_prefix) THEN "False"
    ELSE IF ~key THEN "raised"
    ELSE IF ev.kind = "not built" THEN "raised"
    ELSE IF ev.kind = "raised" THEN "False"
    ELSE LET cleaned == Lower(Strip(ev.text))
         IN  IF Contains(cleaned, <<"f","a","l","s","e">>) THEN "False"
             ELSE IF Contains(cleaned, <<"t","r","u","e">>) THEN "True"
             ELSE "False"

\* query_and_validate: the value returned, or "raised" when an exception
\* leaves it
query_and_validate(rag, key, ev) ==
    IF rag.chat = "not run" THEN "raised"
    ELSE IF StartsWith(rag.text, error_prefix) THEN "False"
    ELSE IF ~key THEN "raised"
    ELSE IF ev.kind = "not built" THEN "raised"
    ELSE IF ev.kind = "raised" THEN "False"
    ELSE LET cleaned == Lower(Strip(ev.text))
         IN  IF Contains(cleaned, <<"t","r","u","e">>) THEN "True"
             ELSE IF Contains(cleaned, <<"f","a","l","s","e">>) THEN "False"
             ELSE "False"

\* how one test went, as far as the run records it
TestRecord(n, rag, key, ev) ==
    LET called == EvaluatorCalled(rag, key, ev)
        value == query_and_validate(rag, key, ev)
    IN  [test |-> n,
         chat |-> rag.chat,
         evaluator |-> IF called THEN ev.kind ELSE "not called",
         reply |-> IF called THEN ev.text ELSE <<>>,
         value |-> value,
         counted |-> IF value = "True" THEN "passed" ELSE "failed"]

TestsInit ==
    /\ pc = "tests_loop"
    /\ hasKey \in BOOLEAN
    /\ persistDir = TRUE
    /\ ingests = 0
    /\ runs = 0
    /\ cmd = "none"
    /\ entered = "none"
    /\ status = "running"
    /\ chainBuilt = FALSE
    /\ question = <<>>
    /\ result = <<>>
    /\ splitOutcome = "none"
    /\ sub_questions = <<>>
    /\ i = 0
    /\ calls = <<>>
    /\ inflight = 0
    /\ output = <<>>
    /\ log = <<>>
    /\ tokens = <<>>
    /\ response = <<>>
    /\ enhanced = <<>>
    /\ test_i = 1
    /\ passed_tests = 0
    /\ failed_tests = 0
    /\ tests_run = <<>>
    /\ exit_code = "none"

\* a faulty variant of the loop body: no try/except around test_func(), an
\* exception of a test ends the run
RunTestNoCatch ==
    /\ pc = "tests_loop"
    /\ test_i <= total_tests
    /\ \E rag \in QueryOutcomes(hasKey), ev \in EvaluatorOutcomes :
          LET record == TestRecord(test_i, rag, hasKey, ev)
          IN  /\ tests_run' = Append(tests_run, record)
              /\ IF record.value = "True"
                 THEN /\ passed_tests' = passed_tests + 1
                      /\ test_i' = test_i + 1
                      /\ UNCHANGED <<pc, exit_code>>
                 ELSE /\ pc' = "tests_exit"
                      /\ exit_code' = "1"
                      /\ UNCHANGED <<passed_tests, test_i>>
    /\ UNCHANGED <<processVars, failed_tests, question, result, splitOutcome,
                   sub_questions, tokens, response, enhanced>>

\* run_all_tests, one turn of its loop: try: test_func(); passed_tests += 1
\* except Exception: failed_tests += 1
RunTest ==
    /\ pc = "tests_loop"
    /\ test_i <= total_tests
    /\ \E rag \in QueryOutcomes(hasKey), ev \in EvaluatorOutcomes :
          LET record == TestRecord(test_i, rag, hasKey, ev)
          IN  /\ tests_run' = Append(tests_run, record)
              /\ IF record.value = "True"
                 THEN passed_tests' = passed_tests + 1 /\ UNCHANGED failed_tests
                 ELSE failed_tests' = failed_tests + 1 /\ UNCHANGED passed_tests
    /\ test_i' = test_i + 1
    /\ UNCHANGED <<pc, exit_code, processVars, question, result, splitOutcome,
                   sub_questions, tokens, response, enhanced>>

\* a faulty variant of the end of the run: the exit status is 0 as soon as
\* one test passed
FinishTestsExitOnPassed ==
    /\ pc = "tests_loop"
    /\ test_i > total_tests
    /\ exit_code' = IF passed_tests > 0 THEN "0" ELSE "1"
    /\ pc' = "tests_exit"
    /\ UNCHANGED <<test_i, passed_tests, failed_tests, tests_run, processVars,
                   question, result, splitOutcome, sub_questions, tokens,
                   response, enhanced>>

\* the loop is over: the totals are printed, run_all_tests returns
\* failed_tests == 0 and __main__ calls sys.exit(0 if success else 1)
FinishTests ==
    /\ pc = "tests_loop"
    /\ test_i > total_tests
    /\ exit_code' = IF failed_tests = 0 THEN "0" ELSE "1"
    /\ pc' = "tests_exit"
    /\ UNCHANGED <<test_i, passed_tests, failed_tests, tests_run, processVars,
                   question, result, splitOutcome, sub_questions, tokens,
                   response, enhanced>>

TestsNext == RunTest \/ FinishTests

SpecTests == TestsInit /\ [][TestsNext]_vars

\* C19: every test of the list is run exactly once, in list order, whatever
\* the earlier tests did: the run never ends before the last test, and a test
\* whose chat process did not end with status 0, or that raised, is counted
\* as failed.
C19_EveryTestRunOnce ==
    /\ \A k \in 1..Len(tests_run) : tests_run[k].test = k
    /\ pc = "tests_loop" => Len(tests_run) = test_i - 1
    /\ pc = "tests_exit" => Len(tests_run) = total_tests
    /\ \A k \in 1..Len(tests_run) :
          (tests_run[k].chat # "exit 0" \/ tests_run[k].value # "True")
              => tests_run[k].counted = "failed"
    /\ failed_tests
          = Cardinality({k \in 1..Len(tests_run) : tests_run[k].counted = "failed"})

\* the chat process of the first test ended with an error status, the second
\* test raised out of query_and_validate, the third passed, and the run went
\* on to its end
C19_Witness ==
    /\ pc = "tests_exit"
    /\ Len(tests_run) = total_tests
    /\ tests_run[1].chat = "exit nonzero"
    /\ tests_run[2].value = "raised"
    /\ tests_run[3].value = "True"
    /\ failed_tests >= 2

(***************************************************************************)
(* The choice of the opener                                                *)
(***************************************************************************)

\* the function has rewritten a response and has text left to return
Rewritten ==
    /\ pc = "norm_done"
    /\ ~HasNoAnswerPhrase(response)
    /\ CleanedResponse(response) # <<>>

BeginsWithOpener(s) == \E k \in 1..Len(starters) : StartsWith(Lower(s), starters[k])

ActionVerbEarly(s) == ContainsAny(Prefix(Lower(s), ActionWindow), action_words)

NumericMarkerFirst(s) == StartsWith(s, <<"1", ".">>)

EquipmentWordEarly(s) == ContainsAny(Prefix(Lower(s), EquipmentWindow), equipment_words)

\* C21: a cleaned text that begins with a recognised opener is returned
\* without a prefix; any other gets at most one prefix, the first that
\* applies of "To do this: " (action verb in the first 30 characters),
\* "Steps:\n" (numeric marker first), "Here's how equipment works: "
\* (equipment word in the first 20 characters).
C21_OnePrefixByPriority ==
    Rewritten =>
        LET cleaned == CleanedResponse(response)
        IN  /\ enhanced = cleaned \/ \E p \in Openers : enhanced = p \o cleaned
            /\ BeginsWithOpener(cleaned) => enhanced = cleaned
            /\ ~BeginsWithOpener(cleaned) =>
                  /\ ActionVerbEarly(cleaned) => enhanced = to_do_this \o cleaned
                  /\ (~ActionVerbEarly(cleaned) /\ NumericMarkerFirst(cleaned))
                        => enhanced = steps_opener \o cleaned
                  /\ (~ActionVerbEarly(cleaned) /\ ~NumericMarkerFirst(cleaned)
                         /\ EquipmentWordEarly(cleaned))
                        => enhanced = equipment_opener \o cleaned
                  /\ (~ActionVerbEarly(cleaned) /\ ~NumericMarkerFirst(cleaned)
                         /\ ~EquipmentWordEarly(cleaned))
                        => enhanced = cleaned

\* "machine click Save" has an equipment word and an action verb at its
\* start: it gets "To do this: " and nothing else
C21_Witness ==
    /\ Rewritten
    /\ tokens = <<14, 11>>
    /\ EquipmentWordEarly(CleanedResponse(response))
    /\ enhanced = to_do_this \o <<"m","a","c","h","i","n","e"," ","c","l","i","c","k"," ","S","a","v","e">>

\* C22: a cleaned text that begins with "1." and has no action verb in its
\* first 30 characters is returned with "Steps:\n" in front.
C22_StepsBeforeNumberedList ==
    Rewritten =>
        LET cleaned == CleanedResponse(response)
        IN  (NumericMarkerFirst(cleaned) /\ ~ActionVerbEarly(cleaned))
                => enhanced = steps_opener \o cleaned

(***************************************************************************)
(* The fragments of the question and the context taken from the first      *)
(***************************************************************************)

\* the texts between the " and " pieces of a sequence of pieces, in order
RECURSIVE TokenFragments(_)
TokenFragments(ts) ==
    LET ands == {k \in 1..Len(ts) : ts[k] = 1}
    IN  IF ands = {} THEN <<AssembleQuestion(ts)>>
        ELSE LET first == CHOOSE k \in ands : \A h \in ands : k <= h
             IN  <<AssembleQuestion(SubSeq(ts, 1, first - 1))>>
                     \o TokenFragments(SubSeq(ts, first + 1, Len(ts)))

QuestionFragments == TokenFragments(tokens)

\* the number of " and " in the question
SeparatorCount == Cardinality({k \in 1..Len(tokens) : tokens[k] = 1})

\* the first of tiling, repair, excavation that s contains in lower case,
\* "" when it contains none
FirstKeywordIn(s) ==
    IF \E k \in 1..Len(domain_keywords) : IsFirstKeywordOf(k, s)
    THEN domain_keywords[CHOOSE k \in 1..Len(domain_keywords) : IsFirstKeywordOf(k, s)]
    ELSE <<>>

\* the " and " split has been taken on a question of several fragments
SplitOnAnd == OnFallbackPath /\ SeparatorCount >= 1

\* C23: on the fallback path the context is the first of tiling, repair,
\* excavation found, in lower case, in the first fragment, and nothing else:
\* every later fragment that starts with "how to" gets that keyword after
\* "how to" unless it already holds it, and gets nothing when the first
\* fragment holds no keyword, whatever the later fragments hold.
C23_ContextFromFirstFragment ==
    SplitOnAnd =>
        LET frags == QuestionFragments
            context == FirstKeywordIn(frags[1])
        IN  /\ Len(sub_questions) = Len(frags)
            /\ \A j \in 2..Len(frags) :
                  LET part == Strip(frags[j])
                  IN  StartsWith(part, how_to) =>
                          sub_questions[j] =
                              IF context = <<>> \/ Contains(Lower(part), context)
                              THEN part
                              ELSE how_to \o <<" ">> \o context \o <<" ">>
                                       \o SubSeq(part, Len(how_to) + 1, Len(part))

\* "status and how to add and tiling lead": the keyword of the third
\* fragment is not given to the second
C23_Witness ==
    /\ SplitOnAnd
    /\ tokens = <<7, 1, 3, 1, 2>>
    /\ sub_questions = <<<<"s","t","a","t","u","s">>, <<"h","o","w"," ","t","o"," ","a","d","d">>, <<"t","i","l","i","n","g"," ","l","e","a","d">>>>

MatchesNoPattern(part) ==
    /\ ~StartsWith(part, how_to)
    /\ ~(StartsWith(part, <<"w","h","a","t">>)
           /\ Contains(part, <<"c","o","n","v","e","r","t">>))
    /\ ~(StartsWith(part, <<"w","h","i","c","h">>)
           /\ Contains(part, <<"c","a","n"," ","d","o">>))

\* C24 as stated: on the fallback path fragment 0 comes back unchanged, and
\* so does every later fragment that already holds the context or matches
\* none of the three patterns.
C24_FragmentsPassedUnchanged ==
    SplitOnAnd =>
        LET frags == QuestionFragments
            context == FirstKeywordIn(frags[1])
        IN  /\ Len(sub_questions) = Len(frags)
            /\ sub_questions[1] = frags[1]
            /\ \A j \in 2..Len(frags) :
                  (Contains(Lower(frags[j]), context) \/ MatchesNoPattern(frags[j]))
                      => sub_questions[j] = frags[j]

\* C24: on the fallback path fragment 0 comes back stripped of leading and
\* trailing whitespace and otherwise unchanged, and so does every later
\* fragment that already holds the context or, once stripped, matches none of
\* the three patterns.
C24_FragmentsPassedStripped ==
    SplitOnAnd =>
        LET frags == QuestionFragments
            context == FirstKeywordIn(frags[1])
        IN  /\ Len(sub_questions) = Len(frags)
            /\ sub_questions[1] = Strip(frags[1])
            /\ \A j \in 2..Len(frags) :
                  LET part == Strip(frags[j])
                  IN  (Contains(Lower(part), context) \/ MatchesNoPattern(part))
                          => sub_questions[j] = part

\* "tiling lead and jobs ": the second fragment matches no pattern and comes
\* back as "jobs"
C24_Witness ==
    /\ SplitOnAnd
    /\ tokens = <<2, 1, 8>>
    /\ sub_questions = <<<<"t","i","l","i","n","g"," ","l","e","a","d">>, <<"j","o","b","s">>>>
    /\ sub_questions[2] # QuestionFragments[2]

\* C25: on the fallback path a question with k >= 1 separators " and " comes
\* back as k + 1 sub-questions, the j-th made from the j-th fragment of the
\* question: the first is fragment 1 stripped, each later one is what the
\* loop body makes of its own fragment.
C25_OneSubQuestionPerFragment ==
    SplitOnAnd =>
        LET frags == QuestionFragments
        IN  /\ Len(frags) = SeparatorCount + 1
            /\ Len(sub_questions) = SeparatorCount + 1
            /\ sub_questions[1] = Strip(frags[1])
            /\ \A j \in 2..Len(frags) :
                  sub_questions[j] = RepairPart(frags[j], BaseContext(frags[1]))

\* "how to add and tiling lead and how to add": three sub-questions in the
\* order of the question
C25_Witness ==
    /\ SplitOnAnd
    /\ tokens = <<3, 1, 2, 1, 3>>
    /\ SeparatorCount = 2
    /\ sub_questions = <<<<"h","o","w"," ","t","o"," ","a","d","d">>, <<"t","i","l","i","n","g"," ","l","e","a","d">>, <<"h","o","w"," ","t","o"," ","a","d","d">>>>

(***************************************************************************)
(* What chat has printed when it ends, and at every moment                 *)
(***************************************************************************)

\* chat has returned and the process has ended normally
ChatReturned == pc = "exit" /\ status = "ok" /\ entered = "chat"

\* C26: whenever chat returns without raising, it has printed at least one
\* answer.
C26_AtLeastOneAnswer ==
    ChatReturned => \E k \in 1..Len(output) : output[k].kind = "A"

\* C27: what chat has printed is, at every moment, headers each followed at
\* once by its answer, except that the last header may still be without its
\* answer; the header of a sub-question is printed before its retrieval call
\* is made, so a failed retrieval call leaves its header as the last thing
\* printed.
C27_HeadersThenAnswers ==
    /\ \A k \in 1..Len(output) :
          /\ output[k].kind = (IF k % 2 = 1 THEN "Q" ELSE "A")
          /\ output[k].n = (k + 1) \div 2
    /\ \A c \in 1..Len(calls) :
          /\ calls[c].emitted = 2 * c - 1
          /\ Len(output) >= 2 * c - 1
          /\ output[2 * c - 1].kind = "Q"
          /\ output[2 * c - 1].text = calls[c].question
    /\ Len(output) = IF pc = "invoke" THEN 2 * Len(calls) + 1
                     ELSE IF pc \in {"await", "answer"} \/ RetrievalFailed
                          THEN 2 * Len(calls) - 1
                     ELSE 2 * Len(calls)
    /\ RetrievalFailed =>
          /\ Len(output) = 2 * Len(calls) - 1
          /\ output[Len(output)].kind = "Q"
          /\ output[Len(output)].text = calls[Len(calls)].question

\* the retrieval call of the first sub-question raised: its header is all
\* that was printed
C27_Witness ==
    /\ RetrievalFailed
    /\ Len(calls) = 1
    /\ Len(output) = 1
    /\ output[1].kind = "Q"

(***************************************************************************)
(* SpecParse: query_rag of the test harness.  It starts                    *)
(* "python main.py chat --question ..." as a child process, captures what  *)
(* the child wrote on its standard output and picks the answer out of it.  *)
(* The child's output is what chat prints: for each sub-question a header  *)
(* line and the rewritten answer.                                          *)
(***************************************************************************)

\* at most so many (header, answer) pairs in the output of one chat process
MaxPairs == 2

\* the two marker characters of the output, each one element of a string:
\* U+2192 (rightwards arrow) before an answer and U+1F539 (small blue
\* diamond) before a header
arrow == "U+2192"
diamond == "U+1F539"

\* "[!] Failed to split question. Falling back to original: timeout"
failed_to_split == <<"[","!","]"," ","F","a","i","l","e","d"," ","t","o"," ","s","p","l","i","t"," ","q","u","e","s","t","i","o","n","."," ","F","a","l","l","i","n","g"," ","b","a","c","k"," ","t","o"," ","o","r","i","g","i","n","a","l",":"," ","t","i","m","e","o","u","t">>

\* str(i) for the numbers of the sub-questions
Digits == <<"1", "2", "3", "4", "5", "6", "7", "8", "9">>

\* print(f"\n<diamond> Q{i}: {q}")
PrintedHeader(n, q) ==
    <<"\n", diamond, " ", "Q", Digits[n], ":", " ">> \o q \o <<"\n">>

\* print("<arrow>", enhanced_response)
PrintedAnswer(a) == <<arrow, " ">> \o a \o <<"\n">>

\* the standard output of a chat process that printed the lines of out, after
\* the message of the except branch when the split raised
RECURSIVE PrintedLines(_)
PrintedLines(out) ==
    IF out = <<>> THEN <<>>
    ELSE (IF Head(out).kind = "Q" THEN PrintedHeader(Head(out).n, Head(out).text)
          ELSE PrintedAnswer(Head(out).text))
         \o PrintedLines(Tail(out))

Stdout(raised, out) ==
    (IF raised THEN failed_to_split \o <<"\n">> ELSE <<>>) \o PrintedLines(out)

\* line.split(arrow, 1)[1] for a line that contains the arrow
AfterFirstArrow(line) == SubSeq(line, Find(line, <<arrow>>) + 1, Len(line))

\* the loop of query_rag over the lines from the k-th on
RECURSIVE CollectAnswer(_, _, _, _)
CollectAnswer(lines, k, answer_lines, collecting_answer) ==
    IF k > Len(lines) THEN answer_lines
    ELSE IF Contains(lines[k], <<arrow>>)
    THEN CollectAnswer(lines, k + 1,
                       Append(answer_lines, Strip(AfterFirstArrow(lines[k]))), TRUE)
    ELSE IF collecting_answer /\ Strip(lines[k]) # <<>>
                              /\ ~StartsWith(lines[k], <<diamond>>)
    THEN CollectAnswer(lines, k + 1, Append(answer_lines, Strip(lines[k])),
                       collecting_answer)
    ELSE IF StartsWith(lines[k], <<diamond>>) /\ collecting_answer
    THEN answer_lines
    ELSE CollectAnswer(lines, k + 1, answer_lines, collecting_answer)

\* what query_rag returns for a child that ended with status 0
ParseAnswer(stdout) ==
    Strip(Join(CollectAnswer(Split(Strip(stdout), <<"\n">>), 1, <<>>, FALSE),
               <<" ">>))

\* the sub-questions of the printed headers
PrintedQuestions ==
    {<<"a","d","d"," ","l","e","a","d">>,
     <<"h","o","w"," ","t","o"," ","p","a","y">>,
     <<"S","e","t","t","i","n","g","s"," ","U+2192"," ","U","s","e","r","s">>}

\* the answers of the chain that chat rewrites and prints
ChainAnswers ==
    {<<"c","l","i","c","k"," ","S","a","v","e">>,
     <<"G","o"," ","t","o"," ","S","e","t","t","i","n","g","s","\n","U","s","e","r","s"," ","U+2192"," ","A","d","d">>,
     <<"n","o","t"," ","a","v","a","i","l","a","b","l","e","\n","\n"," ","a","s","k"," ","s","u","p","p","o","r","t"," ">>,
     <<"O","p","e","n"," ","t","h","e"," ","m","e","n","u","\n","U+1F539"," ","n","o","t","e">>,
     <<"Y","e","s","\n","1","."," ","O","p","e","n","\n","2","."," ","C","l","o","s","e">>}

PrintedAnswers == {enhance_response_authority(a) : a \in ChainAnswers}

\* the child's standard error when it ended with a status other than 0
child_stderr == <<"R","u","n","t","i","m","e","E","r","r","o","r",":"," ","N","o"," ","v","e","c","t","o","r"," ","s","t","o","r","e"," ","f","o","u","n","d","\n">>

\* what the chat loop prints for the sub-questions qs and the answers as
PairsOutput(qs, as) ==
    [k \in 1..(2 * Len(qs)) |->
        IF k % 2 = 1 THEN [kind |-> "Q", n |-> (k + 1) \div 2, text |-> qs[(k + 1) \div 2]]
        ELSE [kind |-> "A", n |-> k \div 2, text |-> as[k \div 2]]]

ParseInit ==
    /\ pc = "parse_ready"
    /\ hasKey = TRUE
    /\ persistDir = TRUE
    /\ ingests = 0
    /\ runs = 0
    /\ cmd = "chat"
    /\ entered = "chat"
    /\ status \in {"ok", "error"}
    /\ chainBuilt = TRUE
    /\ question = <<>>
    /\ result = <<>>
    /\ splitOutcome \in {"ok", "raised"}
    /\ \E n \in 1..MaxPairs :
          /\ sub_questions \in [1..n -> PrintedQuestions]
          /\ splitOutcome = "raised" => n = 1
          /\ \E as \in [1..n -> PrintedAnswers] :
                output = PairsOutput(sub_questions, as)
    /\ i = 0
    /\ calls = <<>>
    /\ inflight = 0
    /\ log = <<>>
    /\ tokens = <<>>
    /\ response = Stdout(splitOutcome = "raised", output)
    /\ enhanced = <<>>
    /\ test_i = 0
    /\ passed_tests = 0
    /\ failed_tests = 0
    /\ tests_run = <<>>
    /\ exit_code = "none"

\* subprocess.run returns and the answer is picked out of the standard output
QueryRagReturn ==
    /\ pc = "parse_ready"
    /\ status = "ok"
    /\ enhanced' = ParseAnswer(response)
    /\ pc' = "parse_done"
    /\ UNCHANGED <<processVars, question, result, splitOutcome, sub_questions,
                   tokens, response, harnessVars>>

\* check=True: a status other than 0 raises CalledProcessError
QueryRagError ==
    /\ pc = "parse_ready"
    /\ status = "error"
    /\ enhanced' = error_prefix \o <<" ">> \o child_stderr
    /\ pc' = "parse_done"
    /\ UNCHANGED <<processVars, question, result, splitOutcome, sub_questions,
                   tokens, response, harnessVars>>

ParseNext == QueryRagReturn \/ QueryRagError

SpecParse == ParseInit /\ [][ParseNext]_vars

\* the lines of an answer that are not blank, stripped
AnswerLines(a) ==
    LET lines == Split(a, <<"\n">>)
    IN  SelectSeq([k \in 1..Len(lines) |-> Strip(lines[k])], LAMBDA l : l # <<>>)

\* the output query_rag parsed: at least one pair, no sub-question with the
\* arrow in it, no answer line that starts with the diamond
WellMarkedOutput ==
    /\ pc = "parse_done"
    /\ status = "ok"
    /\ Len(output) >= 2
    /\ \A k \in 1..Len(output) :
          /\ output[k].kind = "Q" => ~Contains(output[k].text, <<arrow>>)
          /\ output[k].kind = "A" =>
                \A l \in 1..Len(Split(output[k].text, <<"\n">>)) :
                    ~StartsWith(Split(output[k].text, <<"\n">>)[l], <<diamond>>)

\* C28: for chat output of one or more (header, answer) pairs in which no
\* sub-question contains the arrow and no answer line starts with the
\* diamond, query_rag returns the non-empty lines of the first pair's answer
\* joined by single spaces, and nothing of the later answers
C28_FirstAnswerReturned ==
    WellMarkedOutput => enhanced = Join(AnswerLines(output[2].text), <<" ">>)

(***************************************************************************)
(* The verdict of one test and the totals of the run                       *)
(***************************************************************************)

true_word == <<"t","r","u","e">>
false_word == <<"f","a","l","s","e">>

\* the evaluator replied to the k-th test and its reply has the word in it,
\* whatever the case of the letters
ReplyContains(k, word) ==
    /\ tests_run[k].evaluator = "reply"
    /\ Contains(Lower(tests_run[k].reply), word)

\* C29: query_and_validate returns True exactly when the chat query did not
\* error and the evaluator's reply contains "true" in any case of letters; a
\* reply with both "true" and "false" in it is a pass; a chat error returns
\* False and the evaluator is not called.
C29_PassIffTrueInReply ==
    \A k \in 1..Len(tests_run) :
        /\ tests_run[k].value = "True"
              <=> (tests_run[k].chat = "exit 0" /\ ReplyContains(k, true_word))
        /\ (ReplyContains(k, true_word) /\ ReplyContains(k, false_word))
              => tests_run[k].value = "True"
        /\ tests_run[k].chat = "exit nonzero"
              => (tests_run[k].value = "False" /\ tests_run[k].evaluator = "not called")

\* the evaluator's reply to the first test had both words in it, in capitals
\* and in small letters, and the chat query of the second test failed
C29_Witness ==
    /\ Len(tests_run) >= 2
    /\ ReplyContains(1, true_word)
    /\ ReplyContains(1, false_word)
    /\ ~Contains(tests_run[1].reply, true_word)
    /\ tests_run[1].value = "True"
    /\ tests_run[2].chat = "exit nonzero"
    /\ tests_run[2].value = "False"

\* the tests counted one way or the other
CountedAs(how) == {k \in 1..Len(tests_run) : tests_run[k].counted = how}

\* C30: at the end of run_all_tests passed_tests + failed_tests is the number
\* of tests of the list, every test counted exactly once; the function
\* returns True, and the process ends with status 0, exactly when
\* failed_tests is 0.
C30_TotalsAndExitStatus ==
    /\ passed_tests = Cardinality(CountedAs("passed"))
    /\ failed_tests = Cardinality(CountedAs("failed"))
    /\ \A k \in 1..Len(tests_run) : tests_run[k].test = k
    /\ pc = "tests_loop" => exit_code = "none"
    /\ pc = "tests_exit" =>
          /\ Len(tests_run) = total_tests
          /\ passed_tests + failed_tests = total_tests
          /\ exit_code \in {"0", "1"}
          /\ exit_code = "0" <=> failed_tests = 0

\* the run is over, some tests passed and some failed, and the process ended
\* with status 1
C30_Witness ==
    /\ pc = "tests_exit"
    /\ passed_tests >= 1
    /\ failed_tests >= 1
    /\ passed_tests + failed_tests = total_tests
    /\ exit_code = "1"

=============================================================================
